---- MODULE Spec2Model ----
(***************************************************************************)
(* A model of pymodeline (src/pymodeline/__init__.py): the vim modeline    *)
(* parser ModelineParser (parse_line, parse_buffer, the modelines and      *)
(* vim_version accessors) and the option dictionary ModelineDict.          *)
(*                                                                         *)
(* A Python str is a sequence of one-character strings.  The regular       *)
(* expressions are modelled by what Python's backtracking matcher returns: *)
(* the first match in its search order, with the groups of that match.     *)
(* An optional group that did not take part in the match is None, written  *)
(* <<>> here, and a group that matched the text s is <<s>>.                *)
(***************************************************************************)
EXTENDS Integers, Sequences, FiniteSets, TLC

(***************************************************************************)
(* Character classes of Python's re module restricted to ASCII.            *)
(***************************************************************************)
WhiteSpace == {" ", "\t", "\n", "\r", "\f"}

Digits == <<"0", "1", "2", "3", "4", "5", "6", "7", "8", "9">>

IsSpace(c) == c \in WhiteSpace

IsDigit(c) == \E d \in 1..Len(Digits) : Digits[d] = c

\* [:\s], the delimiters of _option_split_re and _option_unescape_re
IsDelim(c) == c = ":" \/ IsSpace(c)

BACKSLASH == "\\"

\* the value of e in Only({F(x) : x \in {e}}) is worked out once, as a
\* local variable's is
Only(S) == CHOOSE x \in S : TRUE

\* s[i:] of Python for a 1-based i (empty when i is past the end)
From(s, i) == IF i > Len(s) THEN <<>> ELSE SubSeq(s, i, Len(s))

\* s.startswith(w, i-1) of Python for a 1-based i
StartsWithAt(s, i, w) ==
    /\ i + Len(w) - 1 <= Len(s)
    /\ \A k \in 1..Len(w) : s[i + k - 1] = w[k]

\* the index just past the longest run of whitespace that starts at i
RECURSIVE SkipSpace(_, _)
SkipSpace(s, i) ==
    IF i <= Len(s) /\ IsSpace(s[i]) THEN SkipSpace(s, i + 1) ELSE i

\* the index just past the longest run of digits that starts at i
RECURSIVE SkipDigits(_, _)
SkipDigits(s, i) ==
    IF i <= Len(s) /\ IsDigit(s[i]) THEN SkipDigits(s, i + 1) ELSE i

\* the index of the first ':' at or after i, Len(s) + 1 when there is none
RECURSIVE FindColon(_, _)
FindColon(s, i) ==
    IF i <= Len(s) /\ s[i] # ":" THEN FindColon(s, i + 1) ELSE i

DigitValue(c) == (CHOOSE d \in 1..Len(Digits) : Digits[d] = c) - 1

\* int(s) of Python for a string of decimal digits
RECURSIVE int(_)
int(s) ==
    IF s = <<>> THEN 0
    ELSE 10 * int(SubSeq(s, 1, Len(s) - 1)) + DigitValue(s[Len(s)])

(***************************************************************************)
(* The option table, module optionlist (not part of the sources): the set  *)
(* of long names, the short-to-long mapping and the boolean options.  A    *)
(* small excerpt of vim's table stands in for it.                          *)
(***************************************************************************)
autoindent == <<"a", "u", "t", "o", "i", "n", "d", "e", "n", "t">>
wrap == <<"w", "r", "a", "p">>
textwidth == <<"t", "e", "x", "t", "w", "i", "d", "t", "h">>
syntax == <<"s", "y", "n", "t", "a", "x">>
ai == <<"a", "i">>
tw == <<"t", "w">>
syn == <<"s", "y", "n">>

option_list == {autoindent, wrap, textwidth, syntax}

boolean_options == {autoindent, wrap}

option_mapping == [k \in {ai, tw, syn} |->
    IF k = ai THEN autoindent ELSE IF k = tw THEN textwidth ELSE syntax]

(***************************************************************************)
(* The head shared by _form1_re and _form2_re:                             *)
(*   ^ (?: (?: .*? \s+ )? (?: vi (?P<has_vim> m )? ) | .*? \s+ ex )        *)
(*     (?(has_vim) (?P<version_op> [<=>] )? (?P<version_no> \d* ) ) :      *)
(***************************************************************************)
vi == <<"v", "i">>
ex == <<"e", "x">>
se == <<"s", "e">>

\* AfterSpace without the whitespace: the marker anywhere in the line
AfterAnything(l, p) ==
    /\ p > 1
    /\ \A j \in 1..(p - 2) : l[j] = "\n" => \A i \in j..(p - 1) : IsSpace(l[i])

\* (?: .*? \s+ ) can end just before index p: a run of whitespace ends
\* there, and a newline before p is part of that run ('.' does not match
\* a newline)
AfterSpace(l, p) ==
    /\ p > 1
    /\ IsSpace(l[p - 1])
    /\ \A j \in 1..(p - 2) : l[j] = "\n" => \A i \in j..(p - 1) : IsSpace(l[i])

NoHead == [ok |-> FALSE, version_op |-> <<>>, version_no |-> <<>>, next |-> 0]

\* vi (m)? (?(has_vim) ([<=>])? (\d*) ) :  with the marker at index p;
\* next is the index just past the ':'
ViHead(l, p) ==
    IF ~StartsWithAt(l, p, vi) THEN NoHead
    ELSE IF p + 2 <= Len(l) /\ l[p + 2] = "m"
    THEN LET o == p + 3
             hasOp == o <= Len(l) /\ l[o] \in {"<", "=", ">"}
             d == IF hasOp THEN o + 1 ELSE o
             e == SkipDigits(l, d)
         IN  IF e <= Len(l) /\ l[e] = ":"
             THEN [ok |-> TRUE,
                   version_op |-> IF hasOp THEN <<l[o]>> ELSE <<>>,
                   version_no |-> <<SubSeq(l, d, e - 1)>>,
                   next |-> e + 1]
             ELSE NoHead
    ELSE IF p + 2 <= Len(l) /\ l[p + 2] = ":"
    THEN [ok |-> TRUE, version_op |-> <<>>, version_no |-> <<>>, next |-> p + 3]
    ELSE NoHead

\* ex :  with the marker at index p (has_vim is unset: no version)
ExHead(l, p) ==
    IF StartsWithAt(l, p, ex) /\ p + 2 <= Len(l) /\ l[p + 2] = ":"
    THEN [ok |-> TRUE, version_op |-> <<>>, version_no |-> <<>>, next |-> p + 3]
    ELSE NoHead

(***************************************************************************)
(* The tails.  Each returns <<options>> for the first way the rest of the  *)
(* expression matches from index q (just past the ':'), or <<>>.           *)
(***************************************************************************)
\* \s+ (?P<options> (?: [^:] | : (?<= \\ ) )+ ) :  from index b.  The
\* branch ': (?<= \\)' looks behind at the ':' it has just consumed, so it
\* never matches and the span is [^:]+ .  \s+ is greedy and gives back.
Form2Options(l, b) ==
    LET w == SkipSpace(l, b)
        A == {a \in (b + 1)..w : FindColon(l, a) > a /\ FindColon(l, a) <= Len(l)}
    IN  IF A = {} THEN <<>>
        ELSE LET a == CHOOSE x \in A : \A y \in A : y <= x
             IN  <<SubSeq(l, a, FindColon(l, a) - 1)>>

\* \s* se t? \s+ (?P<options> ...) :
Form2Tail(l, q) ==
    LET e == SkipSpace(l, q)
    IN  IF ~StartsWithAt(l, e, se) THEN <<>>
        ELSE LET withT == IF e + 2 <= Len(l) /\ l[e + 2] = "t"
                          THEN Form2Options(l, e + 3) ELSE <<>>
             IN  IF withT # <<>> THEN withT ELSE Form2Options(l, e + 2)

\* what (?! se t? \s) refuses at index a
LooksLikeSet(l, a) ==
    /\ StartsWithAt(l, a, se)
    /\ \/ a + 2 <= Len(l) /\ IsSpace(l[a + 2])
       \/ a + 3 <= Len(l) /\ l[a + 2] = "t" /\ IsSpace(l[a + 3])

\* the index of the first newline at or after i, Len(s) + 1 when none
RECURSIVE FindNewline(_, _)
FindNewline(s, i) ==
    IF i <= Len(s) /\ s[i] # "\n" THEN FindNewline(s, i + 1) ELSE i

\* \s* (?! se t? \s) (?P<options> .* ) $  : \s* is greedy and gives back
\* one character at a time until the lookahead lets the match go on
Form1Tail(l, q) ==
    LET w == SkipSpace(l, q)
        A == {a \in q..w : ~LooksLikeSet(l, a) /\ FindNewline(l, a) >= Len(l)}
    IN  IF A = {} THEN <<>>
        ELSE LET a == CHOOSE x \in A : \A y \in A : y <= x
             IN  <<SubSeq(l, a, FindNewline(l, a) - 1)>>

(***************************************************************************)
(* re.match: the matcher tries the marker positions in the order of its    *)
(* backtracking: 'vi' after each run of whitespace from left to right,     *)
(* then 'vi' at the start of the line, then 'ex' after each run of         *)
(* whitespace from left to right.                                          *)
(***************************************************************************)
NoMatch == [matched |-> FALSE, version_op |-> <<>>, version_no |-> <<>>,
            options |-> <<>>]

Attempt(l, head, form) ==
    LET t == IF ~head.ok THEN <<>>
             ELSE IF form = 2 THEN Form2Tail(l, head.next)
             ELSE Form1Tail(l, head.next)
    IN  IF t = <<>> THEN NoMatch
        ELSE [matched |-> TRUE, version_op |-> head.version_op,
              version_no |-> head.version_no, options |-> t[1]]

Least(S) == CHOOSE x \in S : \A y \in S : x <= y

FormMatch(l, form) ==
    LET viAt == {p \in 2..Len(l) :
                    AfterSpace(l, p) /\ Attempt(l, ViHead(l, p), form).matched}
        exAt == {p \in 2..Len(l) :
                    AfterSpace(l, p) /\ Attempt(l, ExHead(l, p), form).matched}
    IN  IF viAt # {} THEN Attempt(l, ViHead(l, Least(viAt)), form)
        ELSE IF Attempt(l, ViHead(l, 1), form).matched
        THEN Attempt(l, ViHead(l, 1), form)
        ELSE IF exAt # {} THEN Attempt(l, ExHead(l, Least(exAt)), form)
        ELSE NoMatch

_form1_re(l) == FormMatch(l, 1)

_form2_re(l) == FormMatch(l, 2)

(***************************************************************************)
(* Values and results.  A dict value is a bool or a str; the result of a   *)
(* call is its return value or the exception it raised.                    *)
(***************************************************************************)
None == <<>>

Some(x) == <<x>>

Bool(b) == [type |-> "bool", b |-> b, s |-> <<>>]

Str(s) == [type |-> "str", b |-> FALSE, s |-> s]

EmptyDict == [k \in {} |-> Bool(FALSE)]

\* dict.__setitem__(d, k, v)
DictSet(d, k, v) == [x \in (DOMAIN d) \cup {k} |-> IF x = k THEN v ELSE d[x]]

\* dict.update the wrong way round: the entries of d are kept
DictUpdateKeep(d, e) ==
    [x \in (DOMAIN d) \cup (DOMAIN e) |-> IF x \in DOMAIN d THEN d[x] ELSE e[x]]

\* dict.update(d, e): the entries of e replace those of d
DictUpdate(d, e) ==
    [x \in (DOMAIN d) \cup (DOMAIN e) |-> IF x \in DOMAIN e THEN e[x] ELSE d[x]]

Return(d) == [exc |-> "None", fmt |-> "", args |-> <<>>, val |-> d]

Raise(type, fmt, args) == [exc |-> type, fmt |-> fmt, args |-> args, val |-> EmptyDict]

(***************************************************************************)
(* ModelineDict                                                            *)
(***************************************************************************)
no == <<"n", "o">>

\* key.startswith('no')
StartsWithNo(key) == StartsWithAt(key, 1, no)

\* ModelineDict._get_long_option: the long name, or the KeyError
_get_long_option(key) ==
    LET k == IF StartsWithNo(key) THEN From(key, 3) ELSE key
    IN  IF k \in DOMAIN option_mapping THEN Return(option_mapping[k])
        ELSE IF k \notin option_list
        THEN Raise("KeyError", "Invalid vim option: %s", <<k>>)
        ELSE Return(k)

\* __setitem__ that takes an option without a value for a flag
SetItemPermissive(self, key, val) ==
    LET long_key == _get_long_option(key)
    IN  IF long_key.exc # "None" THEN long_key
        ELSE IF long_key.val \in boolean_options
        THEN IF val # None
             THEN Raise("ValueError", "Boolean option has a value: %s=%s",
                        <<key, val[1]>>)
             ELSE Return(DictSet(self, long_key.val, Bool(~StartsWithNo(key))))
        ELSE IF val = None
        THEN Return(DictSet(self, long_key.val, Bool(TRUE)))
        ELSE Return(DictSet(self, long_key.val, Str(val[1])))

\* __setitem__ with the boolean taken from the prefix the wrong way round
SetItemInverted(self, key, val) ==
    LET long_key == _get_long_option(key)
    IN  IF long_key.exc # "None" THEN long_key
        ELSE IF long_key.val \in boolean_options
        THEN IF val # None
             THEN Raise("ValueError", "Boolean option has a value: %s=%s",
                        <<key, val[1]>>)
             ELSE Return(DictSet(self, long_key.val, Bool(StartsWithNo(key))))
        ELSE IF val = None
        THEN Raise("ValueError", "Non-boolean option lacks value: %s", <<key>>)
        ELSE Return(DictSet(self, long_key.val, Str(val[1])))

\* ModelineDict.__setitem__(self, key, val): val is None or Some(str).
\* Returns the dict after the assignment, or the exception.
__setitem__(self, key, val) ==
    LET long_key == _get_long_option(key)
    IN  IF long_key.exc # "None" THEN long_key
        ELSE IF long_key.val \in boolean_options
        THEN IF val # None
             THEN Raise("ValueError", "Boolean option has a value: %s=%s",
                        <<key, val[1]>>)
             ELSE Return(DictSet(self, long_key.val, Bool(~StartsWithNo(key))))
        ELSE IF val = None
        THEN Raise("ValueError", "Non-boolean option lacks value: %s", <<key>>)
        ELSE Return(DictSet(self, long_key.val, Str(val[1])))

\* ModelineDict.__getitem__(self, key): the value, or the KeyError
\* of _get_long_option or of dict.__getitem__
__getitem__(self, key) ==
    LET long_key == _get_long_option(key)
    IN  IF long_key.exc # "None" THEN long_key
        ELSE IF long_key.val \notin DOMAIN self
        THEN Raise("KeyError", "%s", <<long_key.val>>)
        ELSE Return(self[long_key.val])

(***************************************************************************)
(* Tokenizing the options                                                  *)
(***************************************************************************)
\* a match of (?<! \\ ) [:\s]+ starts at index i
SplitsAt(s, i) == IsDelim(s[i]) /\ (i = 1 \/ s[i - 1] # BACKSLASH)

\* the index just past the longest run of [:\s] that starts at i
RECURSIVE SkipDelim(_, _)
SkipDelim(s, i) ==
    IF i <= Len(s) /\ IsDelim(s[i]) THEN SkipDelim(s, i + 1) ELSE i

\* re.split(_option_split_re, s) from index i on, cur being the piece so far
RECURSIVE SplitFrom(_, _, _)
SplitFrom(s, i, cur) ==
    IF i > Len(s) THEN <<cur>>
    ELSE IF SplitsAt(s, i) THEN <<cur>> \o SplitFrom(s, SkipDelim(s, i), <<>>)
    ELSE SplitFrom(s, i + 1, Append(cur, s[i]))

_option_split_re(s) == SplitFrom(s, 1, <<>>)

\* _option_unescape_re.sub(r'\1', s): \\ ( [:\s] ) replaced by its group
RECURSIVE _option_unescape_re(_)
_option_unescape_re(s) ==
    IF s = <<>> THEN <<>>
    ELSE IF s[1] = BACKSLASH /\ Len(s) >= 2 /\ IsDelim(s[2])
    THEN <<s[2]>> \o _option_unescape_re(From(s, 3))
    ELSE <<s[1]>> \o _option_unescape_re(From(s, 2))

\* the index of the first '=' of o, Len(o) + 1 when there is none
RECURSIVE FindEquals(_, _)
FindEquals(o, i) ==
    IF i <= Len(o) /\ o[i] # "=" THEN FindEquals(o, i + 1) ELSE i

\* o.split('=', 1)
SplitKeyValue(o) ==
    LET e == FindEquals(o, 1)
    IN  IF e > Len(o) THEN <<o>>
        ELSE <<SubSeq(o, 1, e - 1), From(o, e + 1)>>

(***************************************************************************)
(* ModelineParser.parse_line                                               *)
(***************************************************************************)
\* Applies with the default test taken for 'newer than'
AppliesStrictDefault(vim_version, m) ==
    LET ver_no == int(IF m.version_no = None \/ m.version_no = Some(<<>>)
                      THEN <<"0">> ELSE m.version_no[1])
        ver_op == m.version_op
    IN  IF ver_op = Some(">") THEN vim_version > ver_no
        ELSE IF ver_op = Some("=") THEN vim_version = ver_no
        ELSE IF ver_op = Some("<") THEN vim_version < ver_no
        ELSE vim_version > ver_no

\* the version test of parse_line
Applies(vim_version, m) ==
    LET ver_no == int(IF m.version_no = None \/ m.version_no = Some(<<>>)
                      THEN <<"0">> ELSE m.version_no[1])
        ver_op == m.version_op
    IN  IF ver_op = Some(">") THEN vim_version > ver_no
        ELSE IF ver_op = Some("=") THEN vim_version = ver_no
        ELSE IF ver_op = Some("<") THEN vim_version < ver_no
        ELSE vim_version >= ver_no

\* the loop of parse_line over the pieces of the options, from piece i on
RECURSIVE SetOptions(_, _, _)
SetOptions(ret, os, i) ==
    IF i > Len(os) THEN Return(ret)
    ELSE LET kv == SplitKeyValue(os[i])
             key == kv[1]
             value == IF Len(kv) > 1 THEN Some(_option_unescape_re(kv[2])) ELSE None
         IN  IF key = <<>> THEN SetOptions(ret, os, i + 1)
             ELSE Only({IF r.exc # "None" THEN r ELSE SetOptions(r.val, os, i + 1) :
                        r \in {__setitem__(ret, key, value)}})

\* m = self._form2_re.match(l) or self._form1_re.match(l)
Match(l) ==
    Only({IF m.matched THEN m ELSE _form1_re(l) : m \in {_form2_re(l)}})

parse_line(vim_version, l) ==
    Only({IF ~m.matched THEN Return(EmptyDict)
          ELSE IF ~Applies(vim_version, m) THEN Return(EmptyDict)
          ELSE Only({SetOptions(EmptyDict, os, 1) :
                     os \in {_option_split_re(m.options)}}) :
          m \in {Match(l)}})

(***************************************************************************)
(* ModelineParser.parse_buffer                                             *)
(***************************************************************************)
LineBreaks == {"\n", "\r", "\f"}

\* the index of the first line break at or after i, Len(s) + 1 when none
RECURSIVE FindBreak(_, _)
FindBreak(s, i) ==
    IF i <= Len(s) /\ s[i] \notin LineBreaks THEN FindBreak(s, i + 1) ELSE i

\* buf.splitlines(): the lines without their line breaks ("\r\n" is one
\* break); a break at the very end starts no further line
RECURSIVE splitlines(_)
splitlines(s) ==
    IF s = <<>> THEN <<>>
    ELSE Only({<<SubSeq(s, 1, b - 1)>> \o
               Only({splitlines(rest) :
                     rest \in {From(s, IF b < Len(s) /\ s[b] = "\r" /\ s[b + 1] = "\n"
                                       THEN b + 2 ELSE b + 1)}}) :
               b \in {FindBreak(s, 1)}})

\* the indices (from 1) of lst[:stop] for a list of L items
SliceTo(L, stop) ==
    LET e == IF stop < 0 THEN (IF L + stop < 0 THEN 0 ELSE L + stop)
             ELSE (IF stop > L THEN L ELSE stop)
    IN  [i \in 1..e |-> i]

\* the indices (from 1) of lst[start:] for a list of L items
SliceFrom(L, start) ==
    LET b == IF start < 0 THEN (IF L + start < 0 THEN 0 ELSE L + start)
             ELSE (IF start > L THEN L ELSE start)
    IN  [i \in 1..(L - b) |-> b + i]

\* for l in lines[idx]: ret.update(self.parse_line(l)), from position i on
RECURSIVE UpdateFrom(_, _, _, _, _)
UpdateFrom(vim_version, ret, lines, idx, i) ==
    IF i > Len(idx) THEN Return(ret)
    ELSE Only({IF r.exc # "None" THEN r
               ELSE Only({UpdateFrom(vim_version, d, lines, idx, i + 1) :
                          d \in {DictUpdate(ret, r.val)}}) :
               r \in {parse_line(vim_version, lines[idx[i]])}})

parse_buffer(modelines, vim_version, buf) ==
    Only({Only({IF head.exc # "None" THEN head
                ELSE UpdateFrom(vim_version, head.val, lines,
                                SliceFrom(Len(lines), 0 - mls), 1) :
                head \in {UpdateFrom(vim_version, EmptyDict, lines,
                                     SliceTo(Len(lines), mls), 1)}}) :
          mls \in {modelines}, lines \in {splitlines(buf)}})

(***************************************************************************)
(* Inputs.  Lines are put together from the pieces of a modeline.          *)
(***************************************************************************)
MaxVersion == 1
MaxChunks == 4
MaxTokens == 2
MaxModelines == 2
MaxBufLines == 4

DefaultModelines == 5
DefaultVersion == 730

\* ''.join(parts)
RECURSIVE Cat(_)
Cat(parts) == IF parts = <<>> THEN <<>> ELSE Head(parts) \o Cat(Tail(parts))

\* sep.join(parts)
RECURSIVE Join(_, _)
Join(sep, parts) ==
    IF Len(parts) <= 1 THEN Cat(parts)
    ELSE Head(parts) \o sep \o Join(sep, Tail(parts))

\* str(n) for n >= 0
RECURSIVE Dec(_)
Dec(n) == IF n < 10 THEN <<Digits[n + 1]>> ELSE Dec(n \div 10) \o <<Digits[(n % 10) + 1]>>

SeqsUpTo(S, n) == UNION {[1..k -> S] : k \in 0..n}

vim == <<"v", "i", "m">>
zz == <<"z", "z">>

Versions == (0..MaxVersion) \cup {DefaultVersion}

\* a marker with every version constraint, then one option (valid or
\* not), bare or in a terminated set
GateLines ==
    {Cat(<<pre, marker, verOp, verNo, <<":">>, body>>) :
        pre \in {<<>>, <<"#", " ">>},
        marker \in {vi, vim, ex},
        verOp \in {<<>>, <<"<">>, <<"=">>, <<">">>},
        verNo \in {<<>>} \cup {Dec(n) : n \in Versions},
        body \in {ai, zz, <<"s", "e", "t", " ", "a", "i", ":">>,
                  <<"s", "e", " ", "z", "z", ":">>}}

\* every short line over the markers, ':', a space, a non-space and an option
AnchorChunks == {vim, ex, <<":">>, <<" ">>, <<"#">>, ai}

AnchorLines == {Cat(c) : c \in SeqsUpTo(AnchorChunks, MaxChunks)}

\* a value with an escaped ':' and its meaning
EscapedValue == <<"a", BACKSLASH, ":", "b">>

\* option tokens: an optional 'no', a short name (boolean, not boolean
\* or unknown), an optional value; and two long names
Tokens ==
    {Cat(<<neg, name, val>>) :
        neg \in {<<>>, no},
        name \in {ai, tw, zz},
        val \in {<<>>, <<"=">> \o EscapedValue}}
    \cup {wrap, syntax \o <<"=", "8">>}

\* the two forms of a modeline: what stands before and after the options
Forms == {<<vim \o <<":">>, <<>>>>,
          <<vim \o <<":">> \o <<"s", "e", "t", " ">>, <<":">>>>}

\* the tokens in both forms, separated by a space or by ':'
TokenLines ==
    {Cat(<<form[1], Join(sep, toks), form[2]>>) :
        form \in Forms,
        sep \in {<<" ">>, <<":">>},
        toks \in SeqsUpTo(Tokens, MaxTokens)}

\* a set that is terminated or not, after no, one or two blanks
SetLines ==
    {Cat(<<pre, marker, <<":">>, blanks, set, <<" ">>, rest, term>>) :
        pre \in {<<>>, <<"#", " ">>},
        marker \in {vi, vim, vim \o <<">", "0">>, ex},
        blanks \in {<<>>, <<" ">>, <<" ", " ">>},
        set \in {se, se \o <<"t">>},
        rest \in {ai, zz, tw \o <<"=">> \o EscapedValue, ai \o <<" ">> \o wrap},
        term \in {<<>>, <<":">>}}

\* the lines of a buffer: a blank one, well-formed and malformed modelines
BufLines ==
    {<<>>,
     vim \o <<":">> \o ai,
     vim \o <<":">> \o no \o ai \o <<":">> \o tw \o <<"=", "8">>,
     vim \o <<":">> \o zz,
     vim \o <<":">> \o tw}

Buffers == {Join(<<"\n">>, ls) : ls \in SeqsUpTo(BufLines, MaxBufLines)}

\* the names under which the entries of dict d can be asked for
QueryKeys(d) ==
    LET names == (DOMAIN d) \cup
                 {k \in DOMAIN option_mapping : option_mapping[k] \in DOMAIN d}
    IN  names \cup {no \o k : k \in names}

(***************************************************************************)
(* The state: a parser (its two attributes) and the call in progress.      *)
(***************************************************************************)
VARIABLES
    _modelines,     \* ModelineParser._modelines
    _vim_version,   \* ModelineParser._vim_version
    pc,             \* "idle", or "done" after a call
    op,             \* the call: its name
    line,           \* the argument of parse_line
    buf,            \* the argument of parse_buffer
    key,            \* the argument of ModelineDict.__getitem__
    ret,            \* what the call returned or raised
    item,           \* what __getitem__ on the returned dict gave
    assigned        \* the value last assigned to the modelines property

vars == <<_modelines, _vim_version, pc, op, line, buf, key, ret, item, assigned>>

NoCall == Return(EmptyDict)

Idle ==
    /\ pc = "idle" /\ op = "none" /\ line = <<>> /\ buf = <<>> /\ key = <<>>
    /\ ret = NoCall /\ item = NoCall

Init ==
    /\ _modelines = DefaultModelines
    /\ _vim_version = DefaultVersion
    /\ assigned = DefaultModelines
    /\ Idle

\* the window size as the attribute holds it when it has been assigned
\* directly (the class attribute overridden), for parse_buffer's sake
InitWindow ==
    /\ _modelines \in 0..MaxModelines
    /\ _vim_version = DefaultVersion
    /\ assigned = _modelines
    /\ Idle

Call(name) ==
    /\ pc = "idle"
    /\ pc' = "done"
    /\ op' = name

\* p.modelines: 'return _modelines' names a global the module never defines
GetModelines ==
    /\ Call("modelines")
    /\ ret' = Raise("NameError", "name '%s' is not defined", <<"_modelines">>)
    /\ UNCHANGED <<_modelines, _vim_version, line, buf, key, item, assigned>>

\* p.modelines = new_val: '_modelines = new_val' binds a local of the setter
SetModelines ==
    \E new_val \in 0..MaxModelines :
        /\ Call("modelines.setter")
        /\ assigned' = new_val
        /\ ret' = NoCall
        /\ UNCHANGED <<_modelines, _vim_version, line, buf, key, item>>

\* p.vim_version
GetVimVersion ==
    /\ Call("vim_version")
    /\ ret' = [NoCall EXCEPT !.val = _vim_version]
    /\ UNCHANGED <<_modelines, _vim_version, line, buf, key, item, assigned>>

\* p.vim_version = new_val
SetVimVersion ==
    \E new_val \in Versions :
        /\ Call("vim_version.setter")
        /\ _vim_version' = new_val
        /\ ret' = NoCall
        /\ UNCHANGED <<_modelines, line, buf, key, item, assigned>>

\* p.parse_line(l)
ParseLine(L) ==
    \E l \in L :
        /\ Call("parse_line")
        /\ line' = l
        /\ ret' = parse_line(_vim_version, l)
        /\ UNCHANGED <<_modelines, _vim_version, buf, key, item, assigned>>

\* p.parse_buffer(b)
ParseBuffer(B) ==
    \E b \in B :
        /\ Call("parse_buffer")
        /\ buf' = b
        /\ ret' = parse_buffer(_modelines, _vim_version, b)
        /\ UNCHANGED <<_modelines, _vim_version, line, key, item, assigned>>

\* d[k] on the dict that parse_line returned
GetItem ==
    /\ pc = "done" /\ op = "parse_line" /\ ret.exc = "None"
    /\ \E k \in QueryKeys(ret.val) :
        /\ key' = k
        /\ item' = __getitem__(ret.val, k)
    /\ op' = "__getitem__"
    /\ UNCHANGED <<_modelines, _vim_version, pc, line, buf, ret, assigned>>

\* the call is over; the parser keeps its attributes
Done ==
    /\ pc = "done"
    /\ pc' = "idle" /\ op' = "none" /\ line' = <<>> /\ buf' = <<>> /\ key' = <<>>
    /\ ret' = NoCall /\ item' = NoCall
    /\ UNCHANGED <<_modelines, _vim_version, assigned>>

\* parse_line of versioned modelines at every emulated version
Next ==
    \/ GetVimVersion
    \/ SetVimVersion
    \/ ParseLine(GateLines)
    \/ Done

Spec == Init /\ [][Next]_vars

\* parse_line at the default version, and the dict it returns
NextLine ==
    \/ ParseLine(GateLines)
    \/ ParseLine(AnchorLines)
    \/ ParseLine(TokenLines)
    \/ ParseLine(SetLines)
    \/ GetItem
    \/ Done

SpecLine == Init /\ [][NextLine]_vars

\* the modelines property and parse_buffer
NextModelines ==
    \/ GetModelines
    \/ SetModelines
    \/ ParseBuffer(Buffers)
    \/ Done

SpecModelines == Init /\ [][NextModelines]_vars

\* parse_buffer at every window size
NextWindow ==
    \/ ParseLine(GateLines)
    \/ ParseLine(TokenLines)
    \/ ParseBuffer(Buffers)
    \/ Done

SpecWindow == InitWindow /\ [][NextWindow]_vars

(***************************************************************************)
(* What the claims speak of, said without the parser: the version test,    *)
(* the anchored markers, the tokens of an option span and their meaning.   *)
(***************************************************************************)
AfterParseLine == pc = "done" /\ op = "parse_line"

AfterParseBuffer == pc = "done" /\ op = "parse_buffer"

Empty == Return(EmptyDict)

\* the version number of a match, 0 when the digits are left out
VersionNumber(m) ==
    IF m.version_no = None \/ m.version_no = Some(<<>>) THEN 0
    ELSE int(m.version_no[1])

\* the gate of a match at emulated version v
GateOpen(v, m) ==
    LET n == VersionNumber(m)
    IN  \/ m.version_op = Some(">") /\ v > n
        \/ m.version_op = Some("=") /\ v = n
        \/ m.version_op = Some("<") /\ v < n
        \/ m.version_op = None /\ v >= n

\* index i of s holds a delimiter that is not escaped
Separates(s, i) == IsDelim(s[i]) /\ ~(i > 1 /\ s[i - 1] = BACKSLASH)

\* the tokens of span s: <<a, b>> with s[a..b] a longest stretch without
\* an unescaped delimiter
TokenSpans(s) ==
    {t \in (1..Len(s)) \X (1..Len(s)) :
        /\ t[1] <= t[2]
        /\ \A i \in t[1]..t[2] : ~Separates(s, i)
        /\ t[1] = 1 \/ Separates(s, t[1] - 1)
        /\ t[2] = Len(s) \/ Separates(s, t[2] + 1)}

\* the name of token s[a..b]: what stands before its first '='
TokenName(s, t) ==
    LET eqs == {i \in t[1]..t[2] : s[i] = "="}
    IN  IF eqs = {} THEN SubSeq(s, t[1], t[2])
        ELSE SubSeq(s, t[1], Least(eqs) - 1)

TokenHasValue(s, t) == \E i \in t[1]..t[2] : s[i] = "="

\* the value of token s[a..b] as written: what stands after its first '='
TokenRawValue(s, t) ==
    LET eqs == {i \in t[1]..t[2] : s[i] = "="}
    IN  SubSeq(s, Least(eqs) + 1, t[2])

\* a value without the backslashes that escape a delimiter
RECURSIVE Keep(_, _)
Keep(s, i) ==
    IF i > Len(s) THEN <<>>
    ELSE IF s[i] = BACKSLASH /\ i < Len(s) /\ IsDelim(s[i + 1]) THEN Keep(s, i + 1)
    ELSE <<s[i]>> \o Keep(s, i + 1)

Meaning(raw) == Keep(raw, 1)

Negated(name) == Len(name) >= 2 /\ name[1] = "n" /\ name[2] = "o"

\* the long name a token name stands for (whether it is an option or not)
LongName(name) ==
    LET base == IF Negated(name) THEN SubSeq(name, 3, Len(name)) ELSE name
    IN  IF base \in DOMAIN option_mapping THEN option_mapping[base] ELSE base

\* the tokens of s that have a name
NamedTokens(s) == {t \in TokenSpans(s) : TokenName(s, t) # <<>>}

HasToken(s) == NamedTokens(s) # {}

(***************************************************************************)
(* C1  Version gating.  For a line that matches the grammar with operator  *)
(* op and number n (0 without digits), at emulated version v, the tokens   *)
(* are resolved iff op is '>' and v > n, or '=' and v = n, or '<' and      *)
(* v < n, or op is absent and v >= n; when the gate is closed parse_line   *)
(* returns an empty map and raises nothing, whatever the span holds.       *)
(***************************************************************************)
C1_VersionGate ==
    (AfterParseLine /\ Match(line).matched) =>
        LET m == Match(line)
        IN  /\ ~GateOpen(_vim_version, m) => ret = Empty
            /\ HasToken(m.options) => (ret # Empty <=> GateOpen(_vim_version, m))

\* a closed gate in front of an unknown option
C1_Witness ==
    /\ AfterParseLine
    /\ Match(line).matched
    /\ Match(line).version_op = Some("<")
    /\ ~GateOpen(_vim_version, Match(line))
    /\ \E t \in NamedTokens(Match(line).options) :
            TokenName(Match(line).options, t) = zz
    /\ ret = Empty

(***************************************************************************)
(* C2  Marker anchoring.  A line gives a non-empty result only if it holds *)
(* an anchored marker: 'vi' or 'vim' at the start of the line or right     *)
(* after whitespace, 'ex' right after whitespace only.  A line with no     *)
(* anchored marker gives an empty map and no error.                        *)
(***************************************************************************)
AnchoredMarker(l) ==
    \E p \in 1..Len(l) :
        \/ StartsWithAt(l, p, vi) /\ (p = 1 \/ IsSpace(l[p - 1]))
        \/ StartsWithAt(l, p, ex) /\ p > 1 /\ IsSpace(l[p - 1])

C2_MarkerAnchoring ==
    AfterParseLine =>
        /\ ret.val # EmptyDict => AnchoredMarker(line)
        /\ ~AnchoredMarker(line) => ret = Empty

\* a marker in the middle of a word ('#vim:ai') or 'ex' in column 0, with
\* an option behind it
C2_Witness ==
    /\ AfterParseLine
    /\ ~AnchoredMarker(line)
    /\ \E p \in 1..Len(line) :
            \/ StartsWithAt(line, p, vim \o <<":">> \o ai)
            \/ StartsWithAt(line, p, ex \o <<":">> \o ai)
    /\ ret = Empty

(***************************************************************************)
(* C3  Typed result.  In every map parse_line returns each key is a long   *)
(* option name of the valid set ('no' stripped, a short name replaced by   *)
(* its long name); the value is a boolean exactly when the key is a        *)
(* boolean option, True if the last token of the matched span for that key *)
(* had no 'no' prefix and False if it had one; otherwise it is the         *)
(* unescaped string value of the last token for that key.                  *)
(***************************************************************************)
\* the last token of span s for long name k
LastTokenFor(s, k) ==
    LET ts == {t \in NamedTokens(s) : LongName(TokenName(s, t)) = k}
    IN  CHOOSE t \in ts : \A u \in ts : u[1] <= t[1]

C3_TypedResult ==
    (AfterParseLine /\ ret.exc = "None") =>
        \A k \in DOMAIN ret.val :
            LET s == Match(line).options
                t == LastTokenFor(s, k)
            IN  /\ k \in option_list
                /\ ret.val[k].type = "bool" <=> k \in boolean_options
                /\ \E u \in NamedTokens(s) : LongName(TokenName(s, u)) = k
                /\ k \in boolean_options =>
                        ret.val[k] = Bool(~Negated(TokenName(s, t)))
                /\ k \notin boolean_options =>
                        ret.val[k] = Str(Meaning(TokenRawValue(s, t)))

\* 'ai' switched off by a later 'noai', and a value with an escaped ':'
C3_Witness ==
    /\ AfterParseLine
    /\ ret.exc = "None"
    /\ DOMAIN ret.val = {autoindent, textwidth}
    /\ ret.val[autoindent] = Bool(FALSE)
    /\ ret.val[textwidth] = Str(<<"a", ":", "b">>)

(***************************************************************************)
(* C4  An unterminated form 2 is never taken for form 1.  A line whose     *)
(* only anchored marker ('vi', 'vim' with an optional version constraint,  *)
(* or 'ex') is followed by ':', any whitespace or none, 'se' or 'set',     *)
(* whitespace, and a rest without an unescaped ':' gives an empty map and  *)
(* no error.                                                               *)
(***************************************************************************)
AnchoredAt(l, p) ==
    \/ StartsWithAt(l, p, vi) /\ (p = 1 \/ IsSpace(l[p - 1]))
    \/ StartsWithAt(l, p, ex) /\ p > 1 /\ IsSpace(l[p - 1])

\* where the ':' of the marker at p has to stand
MarkerColon(l, p) ==
    IF StartsWithAt(l, p, vim)
    THEN SkipDigits(l, IF p + 3 <= Len(l) /\ l[p + 3] \in {"<", "=", ">"}
                       THEN p + 4 ELSE p + 3)
    ELSE p + 2

\* from index b on: whitespace, then no ':' without a backslash before it
BlankThenNoColon(l, b) ==
    /\ b <= Len(l) /\ IsSpace(l[b])
    /\ \A i \in b..Len(l) : l[i] = ":" => l[i - 1] = BACKSLASH

UnterminatedSet(l) ==
    /\ Cardinality({p \in 1..Len(l) : AnchoredAt(l, p)}) = 1
    /\ \E p \in 1..Len(l) :
        /\ AnchoredAt(l, p)
        /\ LET q == MarkerColon(l, p)
               e == SkipSpace(l, q + 1)
           IN  /\ q <= Len(l) /\ l[q] = ":"
               /\ StartsWithAt(l, e, se)
               /\ \/ BlankThenNoColon(l, e + 2)
                  \/ e + 2 <= Len(l) /\ l[e + 2] = "t" /\ BlankThenNoColon(l, e + 3)

C4_UnterminatedSet ==
    (AfterParseLine /\ UnterminatedSet(line)) => ret = Empty

(***************************************************************************)
(* C5  An escaped colon in a value, in both forms: a ':' right after a     *)
(* backslash inside a value neither splits the token nor ends the options  *)
(* of a 'set' modeline, and the value holds the ':' without the backslash: *)
(* the token tw=a\:b gives textwidth the value a:b in form 1 and form 2.   *)
(***************************************************************************)
C5_EscapedColon ==
    AfterParseLine =>
        \A form \in Forms, before \in {<<>>, ai \o <<" ">>} :
            line = Cat(<<form[1], before, tw, <<"=">>, EscapedValue, form[2]>>) =>
                /\ ret.exc = "None"
                /\ textwidth \in DOMAIN ret.val
                /\ ret.val[textwidth] = Str(<<"a", ":", "b">>)

(***************************************************************************)
(* C6  Malformed tokens are never suppressed.  If a line matches the       *)
(* grammar and passes the version gate and its span holds a token whose    *)
(* name is no known option, or a boolean option with '=value', or another  *)
(* option without '=value', parse_line fails with the error of the first   *)
(* such token and returns no map; parse_buffer fails with such an error,   *)
(* and returns no map, whenever such a line lies in one of its windows.    *)
(***************************************************************************)
BaseName(name) == IF Negated(name) THEN SubSeq(name, 3, Len(name)) ELSE name

Unknown(name) ==
    BaseName(name) \notin DOMAIN option_mapping /\ BaseName(name) \notin option_list

Malformed(s, t) ==
    LET name == TokenName(s, t)
    IN  \/ Unknown(name)
        \/ LongName(name) \in boolean_options /\ TokenHasValue(s, t)
        \/ LongName(name) \notin boolean_options /\ ~TokenHasValue(s, t)

\* the error a malformed token stands for
ErrorOf(s, t) ==
    LET name == TokenName(s, t)
    IN  IF Unknown(name)
        THEN Raise("KeyError", "Invalid vim option: %s", <<BaseName(name)>>)
        ELSE IF LongName(name) \in boolean_options
        THEN Raise("ValueError", "Boolean option has a value: %s=%s",
                   <<name, Meaning(TokenRawValue(s, t))>>)
        ELSE Raise("ValueError", "Non-boolean option lacks value: %s", <<name>>)

\* the errors line l stands for at emulated version v: that of its first
\* malformed token, if it is a modeline that applies and has one
ErrorsOfLine(v, l) ==
    LET m == Match(l)
        bad == {t \in NamedTokens(m.options) : Malformed(m.options, t)}
    IN  IF m.matched /\ GateOpen(v, m) /\ bad # {}
        THEN {ErrorOf(m.options, CHOOSE t \in bad : \A u \in bad : t[1] <= u[1])}
        ELSE {}

\* the lines of a buffer of L lines that a window of N lines at either end
\* covers (counted from 1)
InWindows(L, N) == {i \in 1..L : i <= N \/ i > L - N}

C6_MalformedTokens ==
    /\ AfterParseLine =>
            \A e \in ErrorsOfLine(_vim_version, line) : ret = e
    /\ AfterParseBuffer =>
            LET lines == splitlines(buf)
                bad == {i \in InWindows(Len(lines), _modelines) :
                            ErrorsOfLine(_vim_version, lines[i]) # {}}
            IN  bad # {} =>
                    /\ ret.exc # "None"
                    /\ ret.val = EmptyDict
                    /\ \E i \in bad : ret \in ErrorsOfLine(_vim_version, lines[i])

\* a buffer whose first line is well-formed and whose last line is not
C6_Witness ==
    /\ AfterParseBuffer
    /\ LET lines == splitlines(buf)
       IN  /\ Len(lines) >= 2
           /\ _modelines >= 1
           /\ lines[1] = vim \o <<":">> \o ai
           /\ ErrorsOfLine(_vim_version, lines[Len(lines)]) # {}
    /\ ret.exc = "ValueError"

(***************************************************************************)
(* C7  The modelines property: reading it on a fresh parser gives 5; after *)
(* it is set to N, reading it gives N and parse_buffer uses N as its       *)
(* window size.                                                            *)
(***************************************************************************)
C7_ModelinesProperty ==
    /\ (pc = "done" /\ op = "modelines") => ret = [NoCall EXCEPT !.val = assigned]
    /\ AfterParseBuffer => ret = parse_buffer(assigned, _vim_version, buf)

(***************************************************************************)
(* C8  Asking a returned ModelineDict: for a stored boolean option the     *)
(* 'no' name gives the negation of what the positive name gives, and the   *)
(* short and the long name give the same stored value.                     *)
(***************************************************************************)
C8_DictQuery ==
    (pc = "done" /\ op = "__getitem__" /\ LongName(key) \in boolean_options) =>
        IF Negated(key)
        THEN item = Return(Bool(~ret.val[LongName(key)].b))
        ELSE item = Return(ret.val[LongName(key)])

(***************************************************************************)
(* C9  The windows of parse_buffer.  With window size N >= 0 and a buffer  *)
(* of L lines, only lines i < N or i >= L - N (counted from 0) are given   *)
(* to parse_line: no other line adds an entry or raises an error, and with *)
(* N = 0 the result is empty.                                              *)
(***************************************************************************)
C9_WindowBound ==
    AfterParseBuffer =>
        LET lines == splitlines(buf)
            W == InWindows(Len(lines), _modelines)
        IN  /\ ret.exc # "None" =>
                    \E i \in W : parse_line(_vim_version, lines[i]) = ret
            /\ ret.exc = "None" =>
                    \A k \in DOMAIN ret.val :
                        \E i \in W :
                            LET r == parse_line(_vim_version, lines[i])
                            IN  r.exc = "None" /\ k \in DOMAIN r.val
                                /\ r.val[k] = ret.val[k]
            /\ _modelines = 0 => ret = Empty

(***************************************************************************)
(* C10  The merge order of parse_buffer.  The result is what parse_line    *)
(* gives for each scanned line, taken once and in ascending order, a later *)
(* line overwriting an earlier one key by key; scanning the lines of       *)
(* overlapping windows twice changes neither the map nor the error.        *)
(***************************************************************************)
\* the lines the two loops of parse_buffer go over
Scanned(L, mls) ==
    {SliceTo(L, mls)[i] : i \in 1..Len(SliceTo(L, mls))}
    \cup {SliceFrom(L, 0 - mls)[i] : i \in 1..Len(SliceFrom(L, 0 - mls))}

\* each line of S once, in ascending order
MergedOnce(v, lines, S) ==
    LET r == [i \in S |-> parse_line(v, lines[i])]
        bad == {i \in S : r[i].exc # "None"}
        keys == UNION {DOMAIN r[i].val : i \in S}
        last(k) == CHOOSE i \in S :
                        /\ k \in DOMAIN r[i].val
                        /\ \A j \in S : k \in DOMAIN r[j].val => j <= i
    IN  IF bad # {} THEN r[Least(bad)]
        ELSE Return([k \in keys |-> r[last(k)].val[k]])

C10_MergeOrder ==
    AfterParseBuffer =>
        LET lines == splitlines(buf)
        IN  ret = MergedOnce(_vim_version, lines, Scanned(Len(lines), _modelines))

\* overlapping windows, the last line undoing what the first one set
C10_Witness ==
    /\ AfterParseBuffer
    /\ LET lines == splitlines(buf)
       IN  /\ Len(lines) >= 2
           /\ Len(lines) < 2 * _modelines
           /\ lines[1] = vim \o <<":">> \o ai
           /\ lines[Len(lines)] = vim \o <<":">> \o no \o ai \o <<":">> \o tw \o <<"=", "8">>
    /\ ret = Return(DictSet(DictSet(EmptyDict, autoindent, Bool(FALSE)),
                            textwidth, Str(<<"8">>)))

====
